---- MODULE Spec2Model ----
(***************************************************************************)
(* A model of src/app.py: the keyword extractor extract_keywords and the   *)
(* Streamlit pages around it (login, sign-up, logout, dashboard).          *)
(*                                                                         *)
(* A text is a sequence of one-character strings, a token likewise.  A     *)
(* Counter is the sequence of <<element, count>> pairs in the order the    *)
(* elements were first inserted (the iteration order of a Python dict).    *)
(***************************************************************************)
EXTENDS Integers, Sequences, FiniteSets, TLC

VARIABLES
    \* extract_keywords called on its own: argument, locals, return value
    text, typed, top_n, words, filtered, result, pc,
    \* the Streamlit application
    session_state,   \* st.session_state, a set of <<key, value>>
    menu,            \* the "Go to" selectbox
    page,            \* the "Sections" radio
    clicked,         \* the button whose click started the last script run
    email, password, \* the text inputs as read by the last run
    uploaded_file,   \* the file uploader
    shown,           \* what the last run rendered
    backend,         \* the identity backend calls of the last run
    calls,           \* the extract_keywords calls of the last run
    readable         \* the sentiments the pipeline gave in the last run

kwVars == <<text, typed, top_n, words, filtered, result, pc>>
appVars == <<session_state, menu, page, clicked, email, password, uploaded_file,
             shown, backend, calls, readable>>
vars == <<kwVars, appVars>>

(***************************************************************************)
(* Bounds of the model.                                                    *)
(***************************************************************************)
MaxPieces == 5
MaxTopN == 3
MaxUserPieces == 2
MaxFilePieces == 3

Min(a, b) == IF a <= b THEN a ELSE b

(***************************************************************************)
(* str.lower() on ASCII text and the character class of r"[A-Za-z']+".     *)
(***************************************************************************)
UpperCase ==
    <<"A","B","C","D","E","F","G","H","I","J","K","L","M",
      "N","O","P","Q","R","S","T","U","V","W","X","Y","Z">>

LowerCase ==
    <<"a","b","c","d","e","f","g","h","i","j","k","l","m",
      "n","o","p","q","r","s","t","u","v","w","x","y","z">>

Letters == {UpperCase[i] : i \in 1..26} \cup {LowerCase[i] : i \in 1..26}

\* The lower-case form of every character that has one other than itself.
LowerOf == [c \in {UpperCase[i] : i \in 1..26} |->
              LowerCase[CHOOSE i \in 1..26 : UpperCase[i] = c]]

lower_char(c) == IF c \in DOMAIN LowerOf THEN LowerOf[c] ELSE c

\* Variant: the text is not lower-cased.
lower_identity(s) == s

lower(s) == [i \in 1..Len(s) |-> lower_char(s[i])]

PatternChars == Letters \cup {"'"}

\* Variant: the class r"[A-Za-z]+", without the apostrophe.
pattern_class_letters(c) == c \in Letters

pattern_class(c) == c \in PatternChars

(***************************************************************************)
(* re.findall(r"[A-Za-z']+", s): scan left to right; at a character of the *)
(* class take the longest match (+ is greedy), resume after it; any other  *)
(* character is skipped.                                                   *)
(***************************************************************************)
RECURSIVE match_end(_, _)
match_end(s, i) ==
    IF i <= Len(s) /\ pattern_class(s[i]) THEN match_end(s, i + 1) ELSE i

RECURSIVE findall_from(_, _)
findall_from(s, i) ==
    IF i > Len(s) THEN <<>>
    ELSE IF pattern_class(s[i])
         THEN LET e == match_end(s, i)
              IN  <<SubSeq(s, i, e - 1)>> \o findall_from(s, e)
         ELSE findall_from(s, i + 1)

findall(s) == findall_from(s, 1)

(***************************************************************************)
(* The local stop set of extract_keywords (lines 66-70).                   *)
(***************************************************************************)
stop == {
    <<"a">>, <<"a","n">>, <<"t","h","e">>, <<"a","n","d">>, <<"o","r">>, <<"b","u","t">>,
    <<"i","f">>, <<"t","h","e","n">>, <<"t","h","a","n">>, <<"t","h","i","s">>,
    <<"t","h","a","t">>, <<"i","s">>, <<"a","r","e">>, <<"w","a","s">>, <<"w","e","r","e">>,
    <<"b","e">>, <<"b","e","e","n">>, <<"b","e","i","n","g">>, <<"t","o">>, <<"o","f">>,
    <<"f","o","r">>, <<"i","n">>, <<"o","n">>, <<"a","t">>, <<"b","y">>, <<"w","i","t","h">>,
    <<"f","r","o","m">>, <<"a","s">>, <<"i","t">>, <<"i","t","s">>, <<"i","n","t","o">>,
    <<"u","p">>, <<"d","o","w","n">>, <<"o","v","e","r">>, <<"u","n","d","e","r">>,
    <<"o","u","t">>, <<"v","e","r","y">>, <<"r","e","a","l","l","y">>, <<"s","o">>,
    <<"n","o","t">>, <<"n","o">>, <<"y","e","s">>, <<"i">>, <<"y","o","u">>, <<"h","e">>,
    <<"s","h","e">>, <<"w","e">>, <<"t","h","e","y">>, <<"t","h","e","m">>, <<"u","s">>,
    <<"o","u","r">>, <<"y","o","u","r">>, <<"t","h","e","i","r">>, <<"m","y">>,
    <<"m","i","n","e">>, <<"o","u","r","s">>, <<"y","o","u","r","s">>,
    <<"t","h","e","i","r","s">>, <<"d","o">>, <<"d","o","e","s">>, <<"d","i","d">>,
    <<"d","o","i","n","g">>, <<"h","a","v","e">>, <<"h","a","s">>, <<"h","a","d">>,
    <<"h","a","v","i","n","g">>, <<"w","i","l","l">>, <<"w","o","u","l","d">>,
    <<"s","h","o","u","l","d">>, <<"c","o","u","l","d">>, <<"c","a","n">>, <<"m","a","y">>,
    <<"m","i","g","h","t">>, <<"m","u","s","t">>
    }

\* Variant: the length test is len(w) >= 2.
keep_len_ge_2(w) == w \notin stop /\ Len(w) >= 2

keep(w) == w \notin stop /\ Len(w) > 2

filter_words(ws) == SelectSeq(ws, keep)

(***************************************************************************)
(* collections.Counter(xs) and Counter.most_common(n).                     *)
(***************************************************************************)
RECURSIVE Counter(_)
Counter(xs) ==
    IF xs = <<>> THEN <<>>
    ELSE LET c == Counter(SubSeq(xs, 1, Len(xs) - 1))
             x == xs[Len(xs)]
         IN  IF \E k \in 1..Len(c) : c[k][1] = x
             THEN LET k == CHOOSE j \in 1..Len(c) : c[j][1] = x
                  IN  [c EXCEPT ![k] = <<x, c[k][2] + 1>>]
             ELSE Append(c, <<x, 1>>)

\* Index of the entry that sorted(..., key=count, reverse=True) puts first:
\* the first of those with the greatest count (the sort is stable).
\* Variant: among equal counts the last inserted goes first.
last_max(c) ==
    CHOOSE k \in 1..Len(c) :
        /\ \A j \in 1..Len(c) : c[j][2] <= c[k][2]
        /\ \A j \in (k + 1)..Len(c) : c[j][2] < c[k][2]

first_max(c) ==
    CHOOSE k \in 1..Len(c) :
        /\ \A j \in 1..Len(c) : c[j][2] <= c[k][2]
        /\ \A j \in 1..(k - 1) : c[j][2] < c[k][2]

remove_at(c, k) == SubSeq(c, 1, k - 1) \o SubSeq(c, k + 1, Len(c))

RECURSIVE sorted_by_count(_)
sorted_by_count(c) ==
    IF c = <<>> THEN <<>>
    ELSE LET k == first_max(c)
         IN  <<c[k]>> \o sorted_by_count(remove_at(c, k))

\* Variant: one entry too many.
most_common_one_more(c, n) ==
    IF n <= 0 THEN <<>>
    ELSE SubSeq(sorted_by_count(c), 1, Min(n + 1, Len(c)))

\* Variant: n = 0 is taken for "no limit", as n = None is.
most_common_zero_is_all(c, n) ==
    IF n = 0 THEN sorted_by_count(c)
    ELSE IF n < 0 THEN <<>>
    ELSE SubSeq(sorted_by_count(c), 1, Min(n, Len(c)))

most_common(c, n) ==
    IF n <= 0 THEN <<>>
    ELSE SubSeq(sorted_by_count(c), 1, Min(n, Len(c)))

(***************************************************************************)
(* extract_keywords(text, top_n), with its locals.                         *)
(***************************************************************************)
extract_keywords(t, n) ==
    LET ws == findall(lower(t))
        fs == filter_words(ws)
    IN  most_common(Counter(fs), n)

(***************************************************************************)
(* The keyword extractor on its own: a text is put together from pieces,   *)
(* then extract_keywords is called on it once.                             *)
(***************************************************************************)
Pieces == {
    <<"c","a","t"," ">>,
    <<"d","o","g"," ">>,
    <<"b","i","r","d">>,
    <<"C","a","t","2">>,
    <<"T","h","e"," ","o","'">>
    }

KwStart ==
    /\ text = <<>>
    /\ typed = 0
    /\ top_n = 0
    /\ words = <<>>
    /\ filtered = <<>>
    /\ result = <<>>
    /\ pc = "input"

AppendPiece(p) ==
    /\ pc = "input"
    /\ typed < MaxPieces
    /\ text' = text \o p
    /\ typed' = typed + 1
    /\ UNCHANGED <<top_n, words, filtered, result, pc>>
    /\ UNCHANGED appVars

Call(n) ==
    /\ pc = "input"
    /\ top_n' = n
    /\ words' = findall(lower(text))
    /\ filtered' = filter_words(words')
    /\ result' = most_common(Counter(filtered'), n)
    /\ pc' = "returned"
    /\ UNCHANGED <<text, typed>>
    /\ UNCHANGED appVars

(***************************************************************************)
(* Strings: str.strip(), str.splitlines() and " ".join().                  *)
(***************************************************************************)
Whitespace == {" ", "\t", "\n", "\r"}

LineBreaks == {"\n", "\r"}

RECURSIVE lstrip(_)
lstrip(s) == IF s # <<>> /\ Head(s) \in Whitespace THEN lstrip(Tail(s)) ELSE s

RECURSIVE rstrip(_)
rstrip(s) ==
    IF s # <<>> /\ s[Len(s)] \in Whitespace THEN rstrip(SubSeq(s, 1, Len(s) - 1)) ELSE s

strip(s) == rstrip(lstrip(s))

\* The lines of s from position i on; cur is the line being read.
RECURSIVE splitlines_from(_, _, _)
splitlines_from(s, i, cur) ==
    IF i > Len(s) THEN (IF cur = <<>> THEN <<>> ELSE <<cur>>)
    ELSE IF s[i] = "\r" /\ i < Len(s) /\ s[i + 1] = "\n"
         THEN <<cur>> \o splitlines_from(s, i + 2, <<>>)
    ELSE IF s[i] \in LineBreaks
         THEN <<cur>> \o splitlines_from(s, i + 1, <<>>)
    ELSE splitlines_from(s, i + 1, Append(cur, s[i]))

splitlines(s) == splitlines_from(s, 1, <<>>)

RECURSIVE join(_, _)
join(sep, xs) ==
    IF xs = <<>> THEN <<>>
    ELSE IF Len(xs) = 1 THEN xs[1]
    ELSE xs[1] \o sep \o join(sep, Tail(xs))

(***************************************************************************)
(* The pipeline's labels and label_map (line 21).                          *)
(***************************************************************************)
Labels == {"LABEL_0", "LABEL_1", "LABEL_2"}

label_map(l) ==
    CASE l = "LABEL_0" -> "negative"
      [] l = "LABEL_1" -> "neutral"
      [] l = "LABEL_2" -> "positive"
      [] OTHER -> l

Sentiments == <<"negative", "neutral", "positive">>

SingleTopN == 7
BatchTopN == 10

(***************************************************************************)
(* st.session_state and the "user" entry.                                  *)
(***************************************************************************)
HasUser(ss) == \E e \in ss : e[1] = "user"

PopUser(ss) == {e \in ss : e[1] # "user"}

SetUser(ss, u) == PopUser(ss) \cup {<<"user", u>>}

NoFile == [present |-> FALSE, data |-> <<>>]

File(d) == [present |-> TRUE, data |-> d]

\* What a page function leaves behind: the session state, what it rendered,
\* the backend calls and extract_keywords calls it made, the sentiments.
Outcome(ss, sh, be, cs, rd) ==
    [session_state |-> ss, shown |-> sh, backend |-> be, calls |-> cs, readable |-> rd]

KwCall(t, n) == [text |-> t, top_n |-> n, result |-> extract_keywords(t, n)]

(***************************************************************************)
(* signup_page and login_page.  ok says whether the backend call, if one   *)
(* is made, returns (TRUE) or raises (FALSE).                              *)
(***************************************************************************)
signup_page(ss, click, em, pw, ok) ==
    LET base == {"signup_page", "Register"}
    IN  IF click # "Register" THEN Outcome(ss, base, <<>>, <<>>, <<>>)
        ELSE IF em = "" \/ pw = ""
        THEN Outcome(ss, base \cup {"error: fill in both"}, <<>>, <<>>, <<>>)
        ELSE Outcome(ss,
                     base \cup {IF ok THEN "success: account created"
                                      ELSE "error: registration failed"},
                     <<[op |-> "create_user", email |-> em, password |-> pw, ok |-> ok]>>,
                     <<>>, <<>>)

\* Variant: the session entry is written after the try block, also when the
\* sign-in raised.
login_page_sets_user_anyway(ss, click, em, pw, ok) ==
    LET base == {"login_page", "Login"}
    IN  IF click # "Login" THEN Outcome(ss, base, <<>>, <<>>, <<>>)
        ELSE IF em = "" \/ pw = ""
        THEN Outcome(ss, base \cup {"error: fill in both"}, <<>>, <<>>, <<>>)
        ELSE Outcome(SetUser(ss, em),
                     base \cup {IF ok THEN "success: logged in" ELSE "error: login failed"},
                     <<[op |-> "sign_in", email |-> em, password |-> pw, ok |-> ok]>>,
                     <<>>, <<>>)

login_page(ss, click, em, pw, ok) ==
    LET base == {"login_page", "Login"}
    IN  IF click # "Login" THEN Outcome(ss, base, <<>>, <<>>, <<>>)
        ELSE IF em = "" \/ pw = ""
        THEN Outcome(ss, base \cup {"error: fill in both"}, <<>>, <<>>, <<>>)
        ELSE LET be == <<[op |-> "sign_in", email |-> em, password |-> pw, ok |-> ok]>>
             IN  IF ok
                 THEN Outcome(SetUser(ss, em), base \cup {"success: logged in"},
                              be, <<>>, <<>>)
                 ELSE Outcome(ss, base \cup {"error: login failed"}, be, <<>>, <<>>)

(***************************************************************************)
(* single_text_analysis and batch_analysis.                                *)
(***************************************************************************)
\* Variant: no check that the text is not blank.
single_text_analysis_unchecked(ss, click, user_text, label) ==
    LET base == {"single", "Analyze Text"}
    IN  IF click # "Analyze Text" THEN Outcome(ss, base, <<>>, <<>>, <<>>)
        ELSE LET common == KwCall(user_text, SingleTopN)
             IN  Outcome(ss,
                         base \cup {"sentiment",
                                    IF common.result # <<>> THEN "keywords"
                                    ELSE "No significant keywords found."},
                         <<>>, <<common>>, <<label_map(label)>>)

single_text_analysis(ss, click, user_text, label) ==
    LET base == {"single", "Analyze Text"}
    IN  IF click # "Analyze Text" THEN Outcome(ss, base, <<>>, <<>>, <<>>)
        ELSE IF strip(user_text) = <<>>
        THEN Outcome(ss, base \cup {"error: enter some text"}, <<>>, <<>>, <<>>)
        ELSE LET common == KwCall(user_text, SingleTopN)
             IN  Outcome(ss,
                         base \cup {"sentiment",
                                    IF common.result # <<>> THEN "keywords"
                                    ELSE "No significant keywords found."},
                         <<>>, <<common>>, <<label_map(label)>>)

\* texts of line 133: the stripped lines that are not empty.
batch_texts(data) ==
    LET lines == splitlines(data)
        stripped == [i \in 1..Len(lines) |-> strip(lines[i])]
    IN  SelectSeq(stripped, LAMBDA l : l # <<>>)

batch_analysis(ss, file, labels) ==
    LET base == {"batch", "uploader"}
    IN  IF ~file.present THEN Outcome(ss, base \cup {"info: upload"}, <<>>, <<>>, <<>>)
        ELSE LET texts == batch_texts(file.data)
             IN  IF texts = <<>>
                 THEN Outcome(ss, base \cup {"error: empty file"}, <<>>, <<>>, <<>>)
                 ELSE LET rd == [i \in 1..Len(texts) |-> label_map(labels[i])]
                          subset(s) == LET idx == SelectSeq([i \in 1..Len(texts) |-> i],
                                                            LAMBDA i : rd[i] = s)
                                       IN  [k \in 1..Len(idx) |-> texts[idx[k]]]
                          drivers == [k \in 1..Len(Sentiments) |->
                                        KwCall(join(<<" ">>, subset(Sentiments[k])),
                                               BatchTopN)]
                      IN  Outcome(ss, base \cup {"results", "drivers"}, <<>>, drivers, rd)

dashboard(ss, pg, click, user_text, label, file, labels) ==
    LET o == IF pg = "Single Text Analysis"
             THEN single_text_analysis(ss, click, user_text, label)
             ELSE batch_analysis(ss, file, labels)
    IN  [o EXCEPT !.shown = @ \cup {"dashboard", "Sections"}]

(***************************************************************************)
(* The script from line 192 on: logout_button, then the page the menu      *)
(* names.  in holds what the widgets return in this run.                   *)
(***************************************************************************)
\* Variant: the dashboard is drawn without looking for the "user" entry.
navigation_ungated(ss, mn, pg, click, in) ==
    IF mn = "Login" THEN login_page(ss, click, in.email, in.password, in.ok)
    ELSE IF mn = "Sign Up" THEN signup_page(ss, click, in.email, in.password, in.ok)
    ELSE dashboard(ss, pg, click, in.user_text, in.label, in.file, in.labels)

navigation(ss, mn, pg, click, in) ==
    IF mn = "Login" THEN login_page(ss, click, in.email, in.password, in.ok)
    ELSE IF mn = "Sign Up" THEN signup_page(ss, click, in.email, in.password, in.ok)
    ELSE IF HasUser(ss)
         THEN dashboard(ss, pg, click, in.user_text, in.label, in.file, in.labels)
         ELSE Outcome(ss, {"warning: log in first"}, <<>>, <<>>, <<>>)

\* logout_button: with a user in the session the button is drawn; its click
\* pops the user and st.experimental_rerun() starts the script again, now
\* with no button clicked.
script(ss, mn, pg, click, in) ==
    IF HasUser(ss)
    THEN IF click = "Logout"
         THEN navigation(PopUser(ss), mn, pg, "none", in)
         ELSE LET o == navigation(ss, mn, pg, click, in)
              IN  [o EXCEPT !.shown = @ \cup {"Logout"}]
    ELSE navigation(ss, mn, pg, click, in)

(***************************************************************************)
(* The inputs of a run.                                                    *)
(***************************************************************************)
RECURSIVE Concats(_, _)
Concats(P, k) ==
    IF k = 0 THEN {<<>>}
    ELSE LET shorter == Concats(P, k - 1)
         IN  shorter \cup {t \o q : t \in shorter, q \in P}

UserPieces == {<<" ">>, <<"c","a","t"," ">>, <<"T","h","e"," ">>}

FilePieces == {<<"c","a","t">>, <<" ">>, <<"\n">>}

UserTexts == Concats(UserPieces, MaxUserPieces)

FileData == Concats(FilePieces, MaxFilePieces)

Emails == {"", "ann@example.com", "bob@example.com"}

Passwords == {"", "secret"}

Menus == {"Login", "Sign Up", "Dashboard"}

Sections == {"Single Text Analysis", "Batch Analysis"}

NoInput ==
    [email |-> "", password |-> "", ok |-> FALSE, user_text |-> <<>>,
     label |-> "LABEL_1", file |-> NoFile, labels |-> <<>>]

\* The labellings the pipeline can give the texts of a file.
Labellings(file) == [1..Len(batch_texts(file.data)) -> Labels]

(***************************************************************************)
(* One script run, and the state it leaves.  Widgets that a run does not   *)
(* draw lose their value: the radio goes back to its first option, the     *)
(* uploader to no file, the text inputs to "".                             *)
(***************************************************************************)
Run(mn, pg, click, in) ==
    \E o \in {script(session_state, mn, pg, click, in)} :
    LET dash == "dashboard" \in o.shown
        auth_page == o.shown \cap {"login_page", "signup_page"} # {}
    IN  /\ session_state' = o.session_state
        /\ menu' = mn
        /\ page' = IF dash THEN pg ELSE "Single Text Analysis"
        /\ clicked' = click
        /\ email' = IF auth_page THEN in.email ELSE ""
        /\ password' = IF auth_page THEN in.password ELSE ""
        /\ uploaded_file' = IF "uploader" \in o.shown THEN in.file ELSE NoFile
        /\ shown' = o.shown
        /\ backend' = o.backend
        /\ calls' = o.calls
        /\ readable' = o.readable
        /\ UNCHANGED kwVars

\* The first run: nothing clicked, the menu on its first option.
AppStart ==
    /\ session_state = {}
    /\ menu = "Login"
    /\ page = "Single Text Analysis"
    /\ clicked = "none"
    /\ email = ""
    /\ password = ""
    /\ uploaded_file = NoFile
    /\ shown = {"login_page", "Login"}
    /\ backend = <<>>
    /\ calls = <<>>
    /\ readable = <<>>

Init == KwStart /\ AppStart

\* The user picks an entry of the menu.
SelectMenu(m) ==
    /\ m # menu
    /\ Run(m, page, "none", NoInput)

\* The user picks a section of the dashboard.
SelectSection(pg) ==
    /\ "Sections" \in shown
    /\ pg # page
    /\ Run(menu, pg, "none", NoInput)

ClickLogin(em, pw, ok) ==
    /\ "Login" \in shown
    /\ Run(menu, page, "Login", [NoInput EXCEPT !.email = em, !.password = pw, !.ok = ok])

ClickRegister(em, pw, ok) ==
    /\ "Register" \in shown
    /\ Run(menu, page, "Register",
           [NoInput EXCEPT !.email = em, !.password = pw, !.ok = ok])

ClickLogout ==
    /\ "Logout" \in shown
    /\ Run(menu, page, "Logout", NoInput)

ClickAnalyze(t, l) ==
    /\ "Analyze Text" \in shown
    /\ Run(menu, page, "Analyze Text", [NoInput EXCEPT !.user_text = t, !.label = l])

\* The user uploads a file; the batch analysis runs at once.
UploadFile(d, ls) ==
    /\ "uploader" \in shown
    /\ Run(menu, page, "none", [NoInput EXCEPT !.file = File(d), !.labels = ls])

\* Any other event that runs the script again with the widgets as they are
\* (typing into an input, a widget losing focus).
Rerun(ls) ==
    /\ Run(menu, page, "none",
           [NoInput EXCEPT !.email = email, !.password = password,
                           !.file = uploaded_file, !.labels = ls])

Next ==
    \/ \E m \in Menus : SelectMenu(m)
    \/ \E pg \in Sections : SelectSection(pg)
    \/ \E em \in Emails, pw \in Passwords, ok \in BOOLEAN : ClickLogin(em, pw, ok)
    \/ \E em \in Emails, pw \in Passwords, ok \in BOOLEAN : ClickRegister(em, pw, ok)
    \/ ClickLogout
    \/ \E t \in UserTexts, l \in Labels : ClickAnalyze(t, l)
    \/ \E d \in FileData : \E ls \in Labellings(File(d)) : UploadFile(d, ls)
    \/ \E ls \in Labellings(uploaded_file) : Rerun(ls)

Spec == Init /\ [][Next]_vars

KwNext ==
    \/ \E p \in Pieces : AppendPiece(p)
    \/ \E n \in 0..MaxTopN : Call(n)

SpecKw == Init /\ [][KwNext]_vars

(***************************************************************************)
(* Vocabulary of the properties, stated on the text itself and not through *)
(* the operators above.                                                    *)
(***************************************************************************)
Apostrophe == "'"

TokenChars == {Apostrophe} \cup Letters

TokenChar(c) == c \in TokenChars

\* The maximal runs of letters and apostrophes of s, as <<first, last>>.
RunStarts(s) ==
    {a \in 1..Len(s) : TokenChar(s[a]) /\ (a = 1 \/ ~TokenChar(s[a - 1]))}

RunEnds(s) ==
    {b \in 1..Len(s) : TokenChar(s[b]) /\ (b = Len(s) \/ ~TokenChar(s[b + 1]))}

\* A run goes from a start to the nearest end at or after it.
Runs(s) ==
    LET ends == RunEnds(s)
        EndOf(a) == LET after == {b \in ends : b >= a}
                    IN  CHOOSE b \in after : \A e \in after : b <= e
    IN  {<<a, EndOf(a)>> : a \in RunStarts(s)}

RunText(s, r) == SubSeq(s, r[1], r[2])

CasePairs == {{UpperCase[i], LowerCase[i]} : i \in 1..26}

SameLetter(a, b) == a = b \/ {a, b} \in CasePairs

SameUpToCase(u, v) ==
    /\ Len(u) = Len(v)
    /\ \A i \in 1..Len(u) : SameLetter(u[i], v[i])

UpperCaseLetters == {UpperCase[i] : i \in 1..26}

NoUpperCase(u) == \A i \in 1..Len(u) : u[i] \notin UpperCaseLetters

Range(s) == {s[i] : i \in 1..Len(s)}

Occurrences(s, x) == Cardinality({i \in 1..Len(s) : s[i] = x})

FirstIndex(s, x) == CHOOSE i \in 1..Len(s) : s[i] = x /\ \A j \in 1..(i - 1) : s[j] # x

Survives(w) == w \notin stop /\ Len(w) > 2

\* The distinct surviving tokens of the text.
Surviving(t) == {w \in {lower(RunText(t, r)) : r \in Runs(t)} : Survives(w)}

\* t goes before u: more occurrences, or as many and first seen earlier.
GoesBefore(s, t, u) ==
    \/ Occurrences(s, t) > Occurrences(s, u)
    \/ Occurrences(s, t) = Occurrences(s, u) /\ FirstIndex(s, t) < FirstIndex(s, u)

Returned == pc = "returned"

Txt_cat_dog_cat_dog_bird ==
    <<"c","a","t"," ","d","o","g"," ","c","a","t"," ","d","o","g"," ","b","i","r","d">>

Tok_cat == <<"c","a","t">>
Tok_dog == <<"d","o","g">>
Tok_bird == <<"b","i","r","d">>

\* C1: the result has min(top_n, D) entries, D the number of distinct
\* surviving tokens of the text; so never more than top_n.
C1_Length ==
    Returned =>
        /\ Len(result) = Min(top_n, Cardinality(Surviving(text)))
        /\ Len(result) <= top_n

C1_Witness ==
    /\ Returned
    /\ top_n > 0
    /\ Cardinality(Surviving(text)) > top_n
    /\ Len(result) = top_n

\* C2: the result is a prefix of the surviving distinct tokens ordered by
\* count descending, equal counts in order of first occurrence in the token
\* stream: its entries are in that order, and every token left out goes after
\* every token returned.
C2_Order ==
    Returned =>
        /\ \A k \in 1..Len(result) : result[k][1] \in Range(filtered)
        /\ \A k, l \in 1..Len(result) :
              k < l => GoesBefore(filtered, result[k][1], result[l][1])
        /\ \A w \in Range(filtered) :
              (\A k \in 1..Len(result) : result[k][1] # w) =>
                  \A k \in 1..Len(result) : GoesBefore(filtered, result[k][1], w)

C2_Witness ==
    /\ Returned
    /\ text = Txt_cat_dog_cat_dog_bird
    /\ top_n = 3
    /\ result = << <<Tok_cat, 2>>, <<Tok_dog, 2>>, <<Tok_bird, 1>> >>

\* C3: each returned count is the number of runs of the text that spell the
\* token up to letter case, is at least 1, and no token is returned twice;
\* the tokens are lower-case.
C3_Counts ==
    Returned =>
        LET rs == Runs(text) IN
        /\ \A k \in 1..Len(result) :
              /\ result[k][2] =
                    Cardinality({r \in rs : SameUpToCase(RunText(text, r), result[k][1])})
              /\ result[k][2] >= 1
              /\ NoUpperCase(result[k][1])
        /\ \A k, l \in 1..Len(result) : result[k][1] = result[l][1] => k = l

C3_Witness ==
    /\ Returned
    /\ text = <<"c","a","t"," ","c","a","t"," ","C","a","t","2">>
    /\ result = << <<Tok_cat, 3>> >>

\* C4: no returned token is a stop word or shorter than 3, and a token of
\* the stream is left out of the counting exactly when it is one of those.
C4_Filter ==
    Returned =>
        /\ \A k \in 1..Len(result) :
              result[k][1] \notin stop /\ Len(result[k][1]) > 2
        /\ \A w \in Range(words) :
              Occurrences(filtered, w) = (IF Survives(w) THEN Occurrences(words, w) ELSE 0)
        /\ Range(filtered) \subseteq Range(words)

C4_Witness ==
    /\ Returned
    /\ \E w \in Range(words) : w \in stop
    /\ \E w \in Range(words) : w \notin stop /\ Len(w) <= 2
    /\ result # <<>>

\* C5: the empty text, a text whose tokens are all stop words or shorter
\* than 3, and top_n = 0 each give the empty sequence.
C5_Degenerate ==
    Returned =>
        ((\/ text = <<>>
          \/ top_n = 0
          \/ \A r \in Runs(text) :
                lower(RunText(text, r)) \in stop \/ r[2] - r[1] + 1 <= 2)
            => result = <<>>)

C5_Witness ==
    /\ Returned
    /\ top_n > 0
    /\ Len(words) >= 2
    /\ \E w \in Range(words) : w \in stop
    /\ \A w \in Range(words) : ~Survives(w)
    /\ result = <<>>

\* C6: the token stream is the maximal runs of letters and apostrophes of
\* the lower-cased text, in text order.
C6_Tokens ==
    Returned =>
        LET lt == lower(text)
            rs == Runs(lt)
        IN  /\ Len(words) = Cardinality(rs)
            /\ \A r \in rs :
                  LET k == Cardinality({q \in rs : q[1] <= r[1]})
                  IN  words[k] = RunText(lt, r)

C6_Witness ==
    /\ Returned
    /\ text = <<"C","a","t","2","T","h","e"," ","o","'","b","i","r","d">>
    /\ words = << Tok_cat, <<"t","h","e">>, <<"o","'","b","i","r","d">> >>

Blank(t) == \A i \in 1..Len(t) : t[i] \in {" ", "\t", "\n", "\r"}

LoggedIn == \E e \in session_state : e[1] = "user"

\* C8 as stated: every extract_keywords call of the application is given a
\* text with at least one character that is not whitespace.
C8_NonBlankCalls == \A i \in 1..Len(calls) : ~Blank(calls[i].text)

\* C8 amended: the single-text analysis calls extract_keywords only with a
\* text that is not blank; the batch analysis calls it only for a file with a
\* line that is not blank, once per sentiment, with a text that is empty when
\* no line has that sentiment and not blank otherwise.
C8_CallTexts ==
    /\ calls # <<>> => "single" \in shown \/ "batch" \in shown
    /\ "single" \in shown => \A i \in 1..Len(calls) : ~Blank(calls[i].text)
    /\ ("batch" \in shown /\ calls # <<>>) =>
          /\ uploaded_file.present
          /\ ~Blank(uploaded_file.data)
          /\ Len(calls) = Len(Sentiments)
          /\ \A k \in 1..Len(calls) :
                IF \E i \in 1..Len(readable) : readable[i] = Sentiments[k]
                THEN ~Blank(calls[k].text)
                ELSE calls[k].text = <<>>

C8_Witness ==
    /\ "batch" \in shown
    /\ Len(calls) = Len(Sentiments)
    /\ Len(readable) = 2
    /\ \E k \in 1..Len(calls) : calls[k].text = <<>>
    /\ Cardinality({k \in 1..Len(calls) : ~Blank(calls[k].text)}) = 2

\* C9: the dashboard is drawn, and the pipeline or extract_keywords run,
\* only with a "user" entry in the session; with the menu on Dashboard and no
\* entry only the warning is drawn; a run draws the dashboard only if the
\* entry was there when the run began, so not after a logout until a login
\* has set it again.
C9_Gate ==
    /\ [](("dashboard" \in shown \/ calls # <<>> \/ readable # <<>>) => LoggedIn)
    /\ []((menu = "Dashboard" /\ ~LoggedIn) => shown = {"warning: log in first"})
    /\ [][("dashboard" \in shown') => LoggedIn]_vars
    /\ [][(clicked' = "Logout") => ~LoggedIn' /\ "dashboard" \notin shown']_vars

C9_Witness ==
    /\ clicked = "Logout"
    /\ menu = "Dashboard"
    /\ ~LoggedIn
    /\ shown = {"warning: log in first"}

\* C10: a step puts a new "user" entry into the session only if it is a
\* login with email and password not empty whose sign-in call returned; a
\* login with an empty field calls no backend; that login, a login whose
\* sign-in raised, and every sign-up leave the session as it was.
C10_UserEntry ==
    [][/\ (session_state' # session_state /\ LoggedIn') =>
              /\ clicked' = "Login"
              /\ email' # "" /\ password' # ""
              /\ backend' = <<[op |-> "sign_in", email |-> email',
                               password |-> password', ok |-> TRUE]>>
       /\ (clicked' = "Login" /\ (email' = "" \/ password' = "")) =>
              backend' = <<>> /\ session_state' = session_state
       /\ (clicked' = "Login" /\ \E i \in 1..Len(backend') : ~backend'[i].ok) =>
              session_state' = session_state
       /\ (clicked' = "Register") =>
              /\ session_state' = session_state
              /\ \A i \in 1..Len(backend') : backend'[i].op = "create_user"
      ]_vars

C10_Witness ==
    /\ clicked = "Login"
    /\ LoggedIn
    /\ backend # <<>>
    /\ backend[1].ok
    /\ session_state = {<<"user", email>>}

====
